---- MODULE Spec2Model ----
(***************************************************************************)
(* Healthcare MDM Streamlit app (src/app/app.py): the per-session query    *)
(* result cache (async_query_wrapper and its helpers) and the stewardship  *)
(* writes on the golden table (update_golden_record_status,                *)
(* update_golden_record_with_steward_edits, generate_golden_records).      *)
(* SpecCache runs the cache under the fetches of the source table, SpecOps *)
(* calls the write operations and the button handlers one after another,   *)
(* SpecUi runs two sessions on the Data Stewardship page.  SpecGen runs    *)
(* generate_golden_records over a source table, SpecLedger interleaves it  *)
(* with decisions, SpecFetch runs fetch_duplicate_data and                 *)
(* fetch_quality_data over a source table and the answers of ai_query, and *)
(* SpecMatch runs generate_golden_records after fetch_duplicate_data.      *)
(* SpecSteward runs generate and the two buttons of the stewardship page,  *)
(* SpecRender runs main() with its data loading for every page, and        *)
(* SpecConfig runs the wrapped fetches under saved table configurations.   *)
(*                                                                         *)
(* Text is modelled as a sequence of tokens, so that the f-string          *)
(* formatting of cache keys and of SQL literals is computed and not        *)
(* assumed.  st.session_state is one object per browser session: every     *)
(* session has its own db_config, data_cache and cache_timestamps, and     *)
(* runs its script in one thread.  The warehouse (the golden table) and    *)
(* the clock are shared by all sessions.                                   *)
(***************************************************************************)
EXTENDS Integers, Sequences, FiniteSets, TLC

\* ------------------------------------------------------------- bounds
\* the clock stops advancing at MaxTime (seconds since the app started)
MaxTime == 301

\* ------------------------------------------------- program constants
CACHE_EXPIRY == 300

\* the two browser sessions of the model
Sessions == {"s1", "s2"}

\* the amounts by which the clock advances between two steps: just below,
\* at and just above the cache expiry
TickSteps == {CACHE_EXPIRY - 1, CACHE_EXPIRY, CACHE_EXPIRY + 1}

\* ------------------------------------------------------------ values
\* Python's None, as a dataframe-typed value
NoneVal == [kind |-> "None", ver |-> 0, rows |-> <<>>]

\* the versions of the warehouse's answer to one query (the source table is
\* owned by upstream systems and changes under the app)
DataVersions == {1}

\* X-Forwarded-Access-Token of a request: absent or present
UserTokens == {"None", "token"}

\* st.session_state.db_config as the module initialises it
DefaultDbConfig ==
    [catalog_name      |-> <<"danny", "_", "catalog">>,
     schema_name       |-> <<"healthcare", "_", "mdm", "_", "schema">>,
     table_name        |-> <<"patients">>,
     golden_table_name |-> <<"patients", "_", "gold">>]

\* func.__name__ of the decorated query functions
fetch_patient_data_name == <<"fetch", "_", "patient", "_", "data">>
fetch_quality_data_name == <<"fetch", "_", "quality", "_", "data">>
fetch_duplicate_data_name == <<"fetch", "_", "duplicate", "_", "data">>
fetch_golden_records_name == <<"fetch", "_", "golden", "_", "records">>

VARIABLES
    now,               \* time.time() / CURRENT_TIMESTAMP(), in seconds
    db_config,         \* st.session_state.db_config, per session
    data_cache,        \* st.session_state.data_cache, per session: key -> data
    cache_timestamps,  \* st.session_state.cache_timestamps, per session
    pc,                \* where each session's wrapper call stands
    call,              \* the locals of each session's wrapper call
    cleared,           \* history: the keys valid when the session last cleared
    golden,            \* the golden table of the warehouse, by golden_record_id
    ui,                \* per session: the stewardship page and its handler
    last               \* the operation that just returned, and what it returned

vars == <<now, db_config, data_cache, cache_timestamps, pc, call, cleared,
          golden, ui, last>>

\* ----------------------------------------------------- dictionaries
\* d[key] = value of a Python dict
DictSet(d, key, value) ==
    [k \in (DOMAIN d) \cup {key} |-> IF k = key THEN value ELSE d[k]]

\* {}
EmptyDict == [k \in {} |-> NoneVal]

\* ------------------------------------------------------ demo datasets
generate_demo_data == [kind |-> "demo_patients", ver |-> 0, rows |-> <<>>]

generate_demo_quality_data ==
    [kind |-> "demo_quality", ver |-> 0, rows |-> <<>>]

\* pd.DataFrame()
EmptyDataFrame == [kind |-> "empty", ver |-> 0, rows |-> <<>>]

\* ------------------------------------------------------- SQL transport
\* sql_query_with_service_principal: the answer of the warehouse, or, when
\* connect/execute raises, the demo patient dataset (the exception is caught)
sql_query_with_service_principal(transportOk, answer) ==
    IF transportOk THEN answer ELSE generate_demo_data

\* sql_query_with_user_token: the same with the user's token
sql_query_with_user_token(transportOk, answer) ==
    IF transportOk THEN answer ELSE generate_demo_data

\* the tail of every fetch_* function: pick the transport by the token
RunQuery(user_token, transportOk, answer) ==
    IF user_token # "None"
    THEN sql_query_with_user_token(transportOk, answer)
    ELSE sql_query_with_service_principal(transportOk, answer)

\* ------------------------------------------------------------- cache
\* is_cache_valid(cache_key) in session s at time t
\* (mutation: an entry aged exactly CACHE_EXPIRY still counts as valid)
is_cache_valid_le(s, cache_key, t) ==
    IF cache_key \notin DOMAIN cache_timestamps[s]
    THEN FALSE
    ELSE (t - cache_timestamps[s][cache_key]) <= CACHE_EXPIRY

is_cache_valid(s, cache_key, t) ==
    IF cache_key \notin DOMAIN cache_timestamps[s]
    THEN FALSE
    ELSE (t - cache_timestamps[s][cache_key]) < CACHE_EXPIRY

\* get_cached_data(cache_key)
get_cached_data(s, cache_key, t) ==
    IF is_cache_valid(s, cache_key, t) /\ cache_key \in DOMAIN data_cache[s]
    THEN data_cache[s][cache_key]
    ELSE NoneVal

\* (mutation: the key leaves out the table name)
CacheKey_no_table(func_name, config) ==
    func_name \o <<"_">> \o config.catalog_name \o <<"_">> \o config.schema_name

\* the f-string of async_query_wrapper's cache key
CacheKey(func_name, config) ==
    func_name \o <<"_">> \o config.catalog_name \o <<"_">>
        \o config.schema_name \o <<"_">> \o config.table_name

\* the cache keys session s can form under its configuration
KeysOf(s, funcs) == {CacheKey(f, db_config[s]) : f \in funcs}

\* (mutation: the value is stored, the timestamp is not)
set_cached_data_data_only(s, cache_key, data, t) ==
    /\ data_cache' = [data_cache EXCEPT ![s] = DictSet(@, cache_key, data)]
    /\ cache_timestamps' = cache_timestamps

\* (mutation: the timestamp of an overwritten entry is kept)
set_cached_data_keep_ts(s, cache_key, data, t) ==
    /\ data_cache' = [data_cache EXCEPT ![s] = DictSet(@, cache_key, data)]
    /\ cache_timestamps' =
           [cache_timestamps EXCEPT ![s] =
               IF cache_key \in DOMAIN @ THEN @ ELSE DictSet(@, cache_key, t)]

\* set_cached_data(cache_key, data)
set_cached_data(s, cache_key, data, t) ==
    /\ data_cache' = [data_cache EXCEPT ![s] = DictSet(@, cache_key, data)]
    /\ cache_timestamps' = [cache_timestamps EXCEPT ![s] = DictSet(@, cache_key, t)]

\* (mutation: only the data is dropped, the timestamps stay)
clear_cache_data_only(s) ==
    /\ data_cache' = [data_cache EXCEPT ![s] = EmptyDict]
    /\ cache_timestamps' = cache_timestamps

\* clear_cache()
clear_cache(s) ==
    /\ data_cache' = [data_cache EXCEPT ![s] = EmptyDict]
    /\ cache_timestamps' = [cache_timestamps EXCEPT ![s] = EmptyDict]

\* 'patient' in func.__name__
NameContains(func_name, word) == \E i \in DOMAIN func_name : func_name[i] = word

\* the except branch of the wrapper: the fallback it returns, by function name
WrapperFallback(func_name) ==
    IF NameContains(func_name, "patient") THEN generate_demo_data
    ELSE IF NameContains(func_name, "quality") THEN generate_demo_quality_data
    ELSE EmptyDataFrame

\* whether the decorated function can raise into the wrapper: its only failing
\* statements are inside sql_query_*'s try, whose except returns demo data
FuncRaises(func_name) == {FALSE}

\* ------------------------------------------------ the wrapper's call
\* the locals of a wrapper call, and what the model remembers of it:
\* tsBefore/dataBefore (the entry before the call), ageAtCheck (its age when
\* the wrapper looked), invoked (calls of the decorated function), failed (the
\* transport raised), storedAt (clock at set_cached_data), afterClear/wasValid
\* (first call after clear_cache, and the key was valid before the clear)
NoCall ==
    [fname |-> <<>>, key |-> <<>>, ret |-> NoneVal, fromCache |-> FALSE,
     ageAtCheck |-> -1, invoked |-> 0, failed |-> FALSE, storedAt |-> -1,
     tsBefore |-> -1, dataBefore |-> NoneVal,
     afterClear |-> FALSE, wasValid |-> FALSE]

NotCleared == [on |-> FALSE, keys |-> {}]

\* the decorated functions whose answer the model leaves abstract
AbstractFuncs == {fetch_patient_data_name, fetch_quality_data_name}

\* the rows the warehouse answers a decorated function's query with
WarehouseAnswer(func_name, ver) ==
    IF func_name = fetch_golden_records_name
    THEN [kind |-> "golden", ver |-> 0,
          rows |-> [i \in DOMAIN golden |->
                      [steward_status |-> golden[i].steward_status]]]
    ELSE [kind |-> "rows", ver |-> ver, rows |-> <<>>]

\* wrapper(*args): cache_key, get_cached_data, and the return of a hit
WrapperBegin(s, func_name) ==
    /\ pc[s] = "idle"
    /\ ui[s].pc # "handler"
    /\ LET config == db_config[s]
           cache_key == CacheKey(func_name, config)
           cached_data == get_cached_data(s, cache_key, now)
           c0 == [NoCall EXCEPT
                    !.fname = func_name, !.key = cache_key,
                    !.tsBefore = IF cache_key \in DOMAIN cache_timestamps[s]
                                 THEN cache_timestamps[s][cache_key] ELSE -1,
                    !.dataBefore = IF cache_key \in DOMAIN data_cache[s]
                                   THEN data_cache[s][cache_key] ELSE NoneVal,
                    !.ageAtCheck = IF cache_key \in DOMAIN cache_timestamps[s]
                                   THEN now - cache_timestamps[s][cache_key]
                                   ELSE -1,
                    !.afterClear = cleared[s].on,
                    !.wasValid = cache_key \in cleared[s].keys]
       IN IF cached_data # NoneVal
          THEN /\ pc' = [pc EXCEPT ![s] = "done"]
               /\ call' = [call EXCEPT ![s] =
                      [c0 EXCEPT !.ret = cached_data, !.fromCache = TRUE]]
          ELSE /\ pc' = [pc EXCEPT ![s] = "exec"]
               /\ call' = [call EXCEPT ![s] = c0]
    /\ cleared' = [cleared EXCEPT ![s] = NotCleared]
    /\ UNCHANGED <<now, db_config, data_cache, cache_timestamps, golden, ui, last>>

\* result = func(*args, **kwargs): the query runs; an exception takes the
\* except branch and returns the fallback without caching it
WrapperExec(s) ==
    /\ pc[s] = "exec"
    /\ \E user_token \in UserTokens, transportOk \in BOOLEAN,
          ver \in DataVersions, raised \in FuncRaises(call[s].fname) :
          IF raised
          THEN /\ pc' = [pc EXCEPT ![s] = "done"]
               /\ call' = [call EXCEPT ![s].ret = WrapperFallback(call[s].fname),
                                        ![s].invoked = @ + 1,
                                        ![s].failed = TRUE]
          ELSE /\ pc' = [pc EXCEPT ![s] = "store"]
               /\ call' = [call EXCEPT
                      ![s].ret = RunQuery(user_token, transportOk,
                                          WarehouseAnswer(call[s].fname, ver)),
                      ![s].invoked = @ + 1,
                      ![s].failed = ~transportOk]
    /\ UNCHANGED <<now, db_config, data_cache, cache_timestamps, cleared,
                   golden, ui, last>>

\* set_cached_data(cache_key, result); return result
WrapperStore(s) ==
    /\ pc[s] = "store"
    /\ set_cached_data(s, call[s].key, call[s].ret, now)
    /\ pc' = [pc EXCEPT ![s] = "done"]
    /\ call' = [call EXCEPT ![s].storedAt = now]
    /\ UNCHANGED <<now, db_config, cleared, golden, ui, last>>

\* column values: SQL NULL, a string, a timestamp, an integer
Null == [k |-> "null", s |-> <<>>, t |-> 0]
Str(text) == [k |-> "str", s |-> text, t |-> 0]
Ts(time) == [k |-> "ts", s |-> <<>>, t |-> time]
IntVal(n) == [k |-> "int", s |-> <<>>, t |-> n]

\* no button of the stewardship page has been clicked
NoEvent ==
    [kind |-> "none", id |-> 0, edited |-> <<>>, comments |-> <<>>,
     whilePending |-> FALSE]

\* the stewardship page of a session before its first render: pc is where
\* the script stands (idle, rerun after a click, handler of the clicked
\* button), listing the golden_records it rendered last, ev the click;
\* succeeded remembers the records whose button, clicked while the persisted
\* status was pending, wrote its decision
NoUi ==
    [pc |-> "idle", listing |-> EmptyDataFrame, ev |-> NoEvent,
     succeeded |-> {}]

\* the record is rendered with the approve and reject buttons: the listing
\* has it with steward_status 'pending'
PendingIn(listing, id) ==
    /\ listing.kind = "golden"
    /\ id \in DOMAIN listing.rows
    /\ listing.rows[id].steward_status = Str(<<"pending">>)

\* the wrapper returns; show_data_stewardship keeps what fetch_golden_records
\* returned as the golden_records it renders
WrapperReturn(s) ==
    /\ pc[s] = "done"
    /\ pc' = [pc EXCEPT ![s] = "idle"]
    /\ call' = [call EXCEPT ![s] = NoCall]
    /\ ui' = IF call[s].fname = fetch_golden_records_name
             THEN [ui EXCEPT
                     ![s].listing = call[s].ret,
                     ![s].pc = IF @ # "rerun" THEN @
                               ELSE IF PendingIn(call[s].ret, ui[s].ev.id)
                                    THEN "handler" ELSE "idle",
                     ![s].ev = IF ui[s].pc = "rerun"
                                  /\ ~PendingIn(call[s].ret, ui[s].ev.id)
                               THEN NoEvent ELSE @]
             ELSE ui
    /\ UNCHANGED <<now, db_config, data_cache, cache_timestamps, cleared, golden,
                   last>>

\* main(): the sidebar's "Refresh All Data" / "Clear Cache" buttons
ClearCacheButton(s) ==
    /\ pc[s] = "idle"
    /\ ui[s].pc = "idle"
    /\ clear_cache(s)
    /\ cleared' = [cleared EXCEPT ![s] =
           [on |-> TRUE,
            keys |-> {k \in DOMAIN cache_timestamps[s] :
                         get_cached_data(s, k, now) # NoneVal}]]
    /\ UNCHANGED <<now, db_config, pc, call, golden, ui, last>>

\* the clock advances
Tick(d) ==
    /\ now + d <= MaxTime
    /\ now' = now + d
    /\ UNCHANGED <<db_config, data_cache, cache_timestamps, pc, call, cleared,
                   golden, ui, last>>

\* no operation has returned since the caller took the last result
NoOp ==
    [op |-> "none", id |-> 0, edited |-> <<>>, updated_data |-> <<>>,
     status |-> <<>>, comments |-> <<>>, approved_by |-> <<>>,
     ret |-> FALSE, before |-> <<>>, at |-> 0, input |-> <<>>, output |-> <<>>]

Init ==
    /\ now = 0
    /\ db_config = [s \in Sessions |-> DefaultDbConfig]
    /\ data_cache = [s \in Sessions |-> EmptyDict]
    /\ cache_timestamps = [s \in Sessions |-> EmptyDict]
    /\ pc = [s \in Sessions |-> "idle"]
    /\ call = [s \in Sessions |-> NoCall]
    /\ cleared = [s \in Sessions |-> NotCleared]
    /\ golden = <<>>
    /\ ui = [s \in Sessions |-> NoUi]
    /\ last = NoOp

\* the cache under the fetches of the source table
NextCache ==
    \/ \E s \in Sessions, f \in AbstractFuncs : WrapperBegin(s, f)
    \/ \E s \in Sessions : WrapperExec(s)
    \/ \E s \in Sessions : WrapperStore(s)
    \/ \E s \in Sessions : WrapperReturn(s)
    \/ \E s \in Sessions : ClearCacheButton(s)
    \/ \E d \in TickSteps : Tick(d)

SpecCache == Init /\ [][NextCache]_vars

\* ======================================================= warehouse ===
\* ---------------------------------------------------------------- text
\* A text is a sequence of tokens.  "'" is the single quote, "a" stands for
\* any character that means nothing to SQL; every other token is a piece of
\* the statement templates (a keyword, a column name, punctuation).
Quote == "'"

\* the columns of the golden table (create_golden_table_if_not_exists)
FieldOrder ==
    <<"medical_record_num", "patient_name", "date_of_birth", "medicare_number",
      "phone", "email", "address", "suburb", "state", "postcode",
      "private_health_fund", "membership_number", "emergency_contact",
      "gp_name", "blood_type", "gender">>

FieldNames == {FieldOrder[i] : i \in DOMAIN FieldOrder}

Columns ==
    {"golden_record_id", "patient_id_cluster", "confidence_score",
     "source_patient_ids", "steward_status", "steward_comments", "approved_by",
     "approved_at", "created_at", "updated_at"} \cup FieldNames

\* get_table_reference(table_type)
get_table_reference(config, table_type) ==
    IF table_type = "golden"
    THEN config.catalog_name \o <<".">> \o config.schema_name \o <<".">>
             \o config.golden_table_name
    ELSE config.catalog_name \o <<".">> \o config.schema_name \o <<".">>
             \o config.table_name

\* the golden table the warehouse holds
GoldenTableRef == get_table_reference(DefaultDbConfig, "golden")

\* ------------------------------------------------- reading a statement
\* The warehouse's lexer: a string literal opens at a quote and closes at the
\* next quote that is not doubled; a doubled quote inside a literal is one
\* quote of the value (SQL's escape, the one line 619 relies on).  Outside a
\* literal every token is a lexeme of its own.  The lexer is in mode "out",
\* "in" (inside a literal) or "inq" (inside a literal, after a quote that
\* closes it unless the next token is a quote too).  No other token is
\* special inside a literal.
LexStart == [mode |-> "out", cur |-> <<>>, lx |-> <<>>]

LexStep(st, tok) ==
    IF st.mode = "out"
    THEN IF tok = Quote
         THEN [st EXCEPT !.mode = "in", !.cur = <<>>]
         ELSE [st EXCEPT !.lx = Append(@, [str |-> FALSE, v |-> <<tok>>])]
    ELSE IF st.mode = "in"
    THEN IF tok = Quote
         THEN [st EXCEPT !.mode = "inq"]
         ELSE [st EXCEPT !.cur = Append(@, tok)]
    ELSE IF tok = Quote
         THEN [st EXCEPT !.mode = "in", !.cur = Append(@, Quote)]
         ELSE [mode |-> "out", cur |-> <<>>,
               lx |-> st.lx \o <<[str |-> TRUE, v |-> st.cur],
                                 [str |-> FALSE, v |-> <<tok>>]>>]

\* the lexer's state after the tokens lo..hi of the text
RECURSIVE LexRange(_, _, _, _)
LexRange(text, lo, hi, st) ==
    IF lo > hi THEN st
    ELSE IF lo = hi THEN LexStep(st, text[lo])
    ELSE LET mid == (lo + hi) \div 2
             left == LexRange(text, lo, mid, st)
         IN \* the left half is read to its end before the right half starts
            IF left.mode \in {"out", "in", "inq"}
            THEN LexRange(text, mid + 1, hi, left)
            ELSE left

\* ok is FALSE when the text ends inside a literal
Lex(text) ==
    LET st == LexRange(text, 1, Len(text), LexStart)
    IN [ok |-> st.mode # "in",
        lx |-> IF st.mode = "inq"
               THEN Append(st.lx, [str |-> TRUE, v |-> st.cur])
               ELSE st.lx]

IsTok(lx, i, tok) == i <= Len(lx) /\ ~lx[i].str /\ lx[i].v = <<tok>>

ParseError == [ok |-> FALSE, table |-> <<>>, sets |-> <<>>, id |-> <<>>]

\* the assignment list of UPDATE ... SET, up to and including the WHERE clause:
\* column = 'literal' | NULL | CURRENT_TIMESTAMP(), separated by commas, then
\* WHERE golden_record_id = <id> and nothing after it
RECURSIVE ParseSets(_, _, _, _)
ParseSets(lx, i, table, acc) ==
    IF ~(i + 3 <= Len(lx) /\ ~lx[i].str /\ lx[i].v[1] \in Columns
            /\ IsTok(lx, i + 1, "="))
    THEN ParseError
    ELSE LET col == lx[i].v[1]
             v == lx[i + 2]
             val == IF v.str THEN Str(v.v)
                    ELSE IF v.v = <<"NULL">> THEN Null
                    ELSE IF v.v = <<"CURRENT_TIMESTAMP()">> THEN Ts(-1)
                    ELSE IntVal(-1)
             acc2 == Append(acc, [col |-> col, val |-> val])
         IN IF val = IntVal(-1) THEN ParseError
            ELSE IF IsTok(lx, i + 3, ",") THEN ParseSets(lx, i + 4, table, acc2)
            ELSE IF /\ IsTok(lx, i + 3, "WHERE")
                    /\ IsTok(lx, i + 4, "golden_record_id")
                    /\ IsTok(lx, i + 5, "=")
                    /\ Len(lx) = i + 6 /\ ~lx[i + 6].str
                 THEN [ok |-> TRUE, table |-> table, sets |-> acc2,
                       id |-> lx[i + 6].v]
                 ELSE ParseError

\* the table reference of UPDATE <ref> SET: the tokens up to SET
RECURSIVE ParseTable(_, _, _)
ParseTable(lx, i, acc) ==
    IF i > Len(lx) \/ lx[i].str THEN ParseError
    ELSE IF lx[i].v = <<"SET">> THEN ParseSets(lx, i + 1, acc, <<>>)
    ELSE ParseTable(lx, i + 1, acc \o lx[i].v)

\* UPDATE <table> SET <assignments> WHERE golden_record_id = <id>
ParseUpdate(text) ==
    LET l == Lex(text)
    IN IF l.ok /\ IsTok(l.lx, 1, "UPDATE") THEN ParseTable(l.lx, 2, <<>>)
       ELSE ParseError

\* (mutation: the statement is cut off after its first assignment)
ApplySets_first_only(row, sets, i, t) ==
    IF sets = <<>> THEN row
    ELSE [row EXCEPT ![sets[1].col] =
            IF sets[1].val.k = "ts" THEN Ts(t) ELSE sets[1].val]

\* the row after the assignments, each evaluated at time t
RECURSIVE ApplySets(_, _, _, _)
ApplySets(row, sets, i, t) ==
    IF i > Len(sets) THEN row
    ELSE ApplySets(
            [row EXCEPT ![sets[i].col] =
                IF sets[i].val.k = "ts" THEN Ts(t) ELSE sets[i].val],
            sets, i + 1, t)

\* a column assigned twice makes the statement invalid
NoDuplicateSets(sets) ==
    \A i, j \in DOMAIN sets : sets[i].col = sets[j].col => i = j

\* golden_record_id BIGINT GENERATED ALWAYS AS IDENTITY, with the check
\* of the identity column left out
AssignsIdentity_never(sets) == FALSE

\* golden_record_id BIGINT GENERATED ALWAYS AS IDENTITY: the table refuses a
\* statement that assigns the column
AssignsIdentity(sets) == \E i \in DOMAIN sets : sets[i].col = "golden_record_id"

\* cursor.execute(query) of an UPDATE on the golden table at time t:
\* ok is FALSE when the statement does not parse or names no table (execute
\* raises); otherwise every row with the id is rewritten
ExecuteUpdate(table, text, t) ==
    LET p == ParseUpdate(text)
    IN IF \/ ~p.ok \/ p.table # GoldenTableRef \/ ~NoDuplicateSets(p.sets)
          \/ AssignsIdentity(p.sets)
       THEN [ok |-> FALSE, table |-> table]
       ELSE [ok |-> TRUE,
             table |-> [i \in DOMAIN table |->
                          IF <<ToString(i)>> = p.id
                          THEN ApplySets(table[i], p.sets, 1, t)
                          ELSE table[i]]]

\* --------------------------------------------------- golden records
\* the source table holds patients 1..NumPatients
NumPatients == 2

\* the golden table holds at most MaxGolden rows
MaxGolden == 1

\* t1 CROSS JOIN t2 WHERE t1.patient_id < t2.patient_id
Pairs == {p \in (1..NumPatients) \X (1..NumPatients) : p[1] < p[2]}

\* what the merge oracle's JSON gives for the sixteen fields (get_json_object
\* is NULL for a field the JSON lacks)
MergeOutputs ==
    {[f \in FieldNames |-> Str(<<"a">>)],
     [f \in FieldNames |-> IF f = "phone" THEN Null ELSE Str(<<"a">>)]}

\* CONCAT(t1.patient_id, ',', t2.patient_id)
SourceIds(p) == <<ToString(p[1]), ",", ToString(p[2])>>

\* (mutation: the INSERT names the run as the record's first reviewer)
NewGoldenRow_decided(id, p, merged, t) ==
    [c \in Columns |->
        IF c \in FieldNames THEN merged[c]
        ELSE IF c = "golden_record_id" THEN IntVal(id)
        ELSE IF c \in {"patient_id_cluster", "source_patient_ids"}
             THEN Str(SourceIds(p))
        ELSE IF c = "confidence_score" THEN Str(<<"0.9">>)
        ELSE IF c = "steward_status" THEN Str(<<"pending">>)
        ELSE IF c \in {"created_at", "updated_at"} THEN Ts(t)
        ELSE IF c = "approved_by" THEN Str(<<"a">>)
        ELSE Null]

\* one row of INSERT INTO golden ... SELECT ... FROM high_confidence_matches
NewGoldenRow(id, p, merged, t) ==
    [c \in Columns |->
        IF c \in FieldNames THEN merged[c]
        ELSE IF c = "golden_record_id" THEN IntVal(id)
        ELSE IF c \in {"patient_id_cluster", "source_patient_ids"}
             THEN Str(SourceIds(p))
        ELSE IF c = "confidence_score" THEN Str(<<"0.9">>)
        ELSE IF c = "steward_status" THEN Str(<<"pending">>)
        ELSE IF c \in {"created_at", "updated_at"} THEN Ts(t)
        ELSE Null]

\* the admitted pairs in the order of their ids
RECURSIVE PairSeq(_)
PairSeq(ps) ==
    IF ps = {} THEN <<>>
    ELSE LET p == CHOOSE x \in ps :
                    \A y \in ps : x[1] < y[1] \/ (x[1] = y[1] /\ x[2] <= y[2])
         IN <<p>> \o PairSeq(ps \ {p})

\* (mutation: INSERT OVERWRITE, the new rows replace the table)
generate_golden_records_overwrite(table, admitted, merged, transportOk, t) ==
    LET ps == PairSeq(admitted)
    IN [ret |-> TRUE,
        table |-> IF transportOk
                  THEN [i \in 1..Len(ps) |-> NewGoldenRow(i, ps[i], merged, t)]
                  ELSE table]

\* generate_golden_records: one pending row per pair the same-person oracle
\* admits, appended to the table; nothing when the transport fails; the
\* function returns True either way (sql_query_* swallow the exception)
generate_golden_records(table, admitted, merged, transportOk, t) ==
    LET ps == PairSeq(admitted)
    IN [ret |-> TRUE,
        table |-> IF transportOk
                  THEN table \o [i \in 1..Len(ps) |->
                                   NewGoldenRow(Len(table) + i, ps[i], merged, t)]
                  ELSE table]

\* ---------------------------------------------------- status updates
\* the f-string of update_golden_record_status
StatusUpdateQuery(config, record_id, status, comments, approved_by) ==
    <<"UPDATE">> \o get_table_reference(config, "golden")
      \o <<"SET", "steward_status", "=", Quote>> \o status
      \o <<Quote, ",", "steward_comments", "=", Quote>> \o comments
      \o <<Quote, ",", "approved_by", "=", Quote>> \o approved_by
      \o <<Quote, ",", "approved_at", "=", "CURRENT_TIMESTAMP()", ",",
           "updated_at", "=", "CURRENT_TIMESTAMP()",
           "WHERE", "golden_record_id", "=", ToString(record_id)>>

\* the table after sql_query_*(query) of an UPDATE: unchanged when connect or
\* execute raises
RunUpdate(table, query, transportOk, t) ==
    LET x == ExecuteUpdate(table, query, t)
    IN IF transportOk /\ x.ok THEN x.table ELSE table

\* update_golden_record_status(record_id, status, comments, approved_by)
update_golden_record_status(table, config, record_id, status, comments, approved_by, transportOk, t) ==
    [ret |-> TRUE,
     table |-> RunUpdate(table,
                  StatusUpdateQuery(config, record_id, status, comments,
                                    approved_by),
                  transportOk, t)]

\* Python's None as an edited value, and a text as one
NoneText == [none |-> TRUE, s |-> <<>>]
Text(x) == [none |-> FALSE, s |-> x]

\* str(value).replace("'", "''")
RECURSIVE EscapeQuotes(_)
EscapeQuotes(text) ==
    IF text = <<>> THEN <<>>
    ELSE (IF Head(text) = Quote THEN <<Quote, Quote>> ELSE <<Head(text)>>)
            \o EscapeQuotes(Tail(text))

\* one element of set_clauses
SetClauseOf(item) ==
    IF ~item.value.none
    THEN <<item.field, "=", Quote>> \o EscapeQuotes(item.value.s) \o <<Quote>>
    ELSE <<item.field, "=", "NULL">>

\* ", ".join(set_clauses) over updated_data.items()
RECURSIVE JoinSetClauses(_)
JoinSetClauses(items) ==
    IF items = <<>> THEN <<>>
    ELSE IF Len(items) = 1 THEN SetClauseOf(items[1])
    ELSE SetClauseOf(items[1]) \o <<",">> \o JoinSetClauses(Tail(items))

\* the f-string of update_golden_record_with_steward_edits
EditsUpdateQuery(config, record_id, updated_data, status, comments, approved_by) ==
    <<"UPDATE">> \o get_table_reference(config, "golden") \o <<"SET">>
      \o JoinSetClauses(updated_data)
      \o <<",", "steward_status", "=", Quote>> \o status
      \o <<Quote, ",", "steward_comments", "=", Quote>> \o comments
      \o <<Quote, ",", "approved_by", "=", Quote>> \o approved_by
      \o <<Quote, ",", "approved_at", "=", "CURRENT_TIMESTAMP()", ",",
           "updated_at", "=", "CURRENT_TIMESTAMP()",
           "WHERE", "golden_record_id", "=", ToString(record_id)>>

\* update_golden_record_with_steward_edits(record_id, updated_data, status,
\* comments, approved_by)
update_golden_record_with_steward_edits(table, config, record_id, updated_data, status, comments, approved_by, transportOk, t) ==
    [ret |-> TRUE,
     table |-> RunUpdate(table,
                  EditsUpdateQuery(config, record_id, updated_data, status,
                                   comments, approved_by),
                  transportOk, t)]

\* ------------------------------------------- the stewardship buttons
\* updated_golden_record of show_enhanced_stewardship_interface: for every
\* field of field_mapping, the text of its text area, or None when empty
UpdatedGoldenRecord(edited) ==
    [i \in DOMAIN FieldOrder |->
        [field |-> FieldOrder[i],
         value |-> IF edited[FieldOrder[i]] # <<>>
                   THEN Text(edited[FieldOrder[i]]) ELSE NoneText]]

\* the handler of "Approve Golden Record"
ApproveHandler(table, config, record_id, edited, comments, steward_name, transportOk, t) ==
    update_golden_record_with_steward_edits(
        table, config, record_id, UpdatedGoldenRecord(edited),
        <<"approved">>,
        IF comments # <<>> THEN comments ELSE <<"Approved with steward edits">>,
        steward_name, transportOk, t)

\* the handler of "Reject Record": without comments it only shows an error
RejectHandler(table, config, record_id, comments, steward_name, transportOk, t) ==
    IF comments # <<>>
    THEN update_golden_record_status(table, config, record_id, <<"rejected">>,
                                     comments, steward_name, transportOk, t)
    ELSE [ret |-> FALSE, table |-> table]

\* ------------------------------------------------------------ inputs
\* review comments typed by a steward: none, plain, and with quotes
CommentInputs ==
    {<<>>, <<"a">>, <<Quote>>, <<Quote, Quote>>,
     <<"a", Quote, ",", "golden_record_id", "=", Quote, "9">>,
     <<"a", Quote, ",", "source_patient_ids", "=", Quote, "9">>}

\* the "Data Steward Name" text input
StewardNames == {<<"a">>, <<Quote>>}

\* what the steward leaves in the sixteen text areas: phone and the other
\* fields, each either emptied or overwritten
EditTexts == {<<>>, <<"a", Quote>>}

EditSets ==
    {[f \in FieldNames |-> IF f = "phone" THEN x ELSE y] :
        x \in EditTexts, y \in EditTexts}

\* updated_data of a direct call: one field set to None, or no field at all
DirectEdits == {<<[field |-> "phone", value |-> NoneText]>>, <<>>}

StatusInputs == {<<"approved">>, <<"rejected">>}

RecordIds == 1..MaxGolden

\* ------------------------------------- the operations, called directly
\* everything the operations below leave alone
sessionVars == <<db_config, data_cache, cache_timestamps, pc, call, cleared, ui>>

\* what the caller of an operation keeps of it: the arguments, the value
\* returned, the table before the call and the time of the call
Returned(op, id, edited, updated_data, status, comments, approved_by, ret) ==
    [op |-> op, id |-> id, edited |-> edited, updated_data |-> updated_data,
     status |-> status, comments |-> comments, approved_by |-> approved_by,
     ret |-> ret, before |-> golden, at |-> now, input |-> <<>>,
     output |-> <<>>]

\* the texts of the sixteen text areas in the order of field_mapping
EditedSeq(edited) == [i \in DOMAIN FieldOrder |-> edited[FieldOrder[i]]]

\* the "Generate New Golden Records" run
OpGenerate ==
    \E admitted \in SUBSET Pairs, merged \in MergeOutputs, transportOk \in BOOLEAN :
        LET r == generate_golden_records(golden, admitted, merged,
                                         transportOk, now)
        IN /\ last.op = "none"
           /\ Len(golden) + Cardinality(admitted) <= MaxGolden
           /\ golden' = r.table
           /\ last' = Returned("generate", 0, <<>>, <<>>, <<>>, <<>>, <<>>, r.ret)
           /\ UNCHANGED <<now, sessionVars>>

OpUpdateStatus(id, status, comments, approved_by) ==
    \E transportOk \in BOOLEAN :
        LET r == update_golden_record_status(golden, DefaultDbConfig, id,
                    status, comments, approved_by, transportOk, now)
        IN /\ last.op = "none"
           /\ golden' = r.table
           /\ last' = Returned("update_status", id, <<>>, <<>>, status,
                                comments, approved_by, r.ret)
           /\ UNCHANGED <<now, sessionVars>>

OpUpdateWithEdits(id, updated_data, status, comments, approved_by) ==
    \E transportOk \in BOOLEAN :
        LET r == update_golden_record_with_steward_edits(golden,
                    DefaultDbConfig, id, updated_data, status, comments,
                    approved_by, transportOk, now)
        IN /\ last.op = "none"
           /\ golden' = r.table
           /\ last' = Returned("update_with_edits", id, <<>>, updated_data,
                                status, comments, approved_by, r.ret)
           /\ UNCHANGED <<now, sessionVars>>

OpApprove(id, edited, comments, steward_name) ==
    \E transportOk \in BOOLEAN :
        LET r == ApproveHandler(golden, DefaultDbConfig, id, edited,
                                comments, steward_name, transportOk, now)
        IN /\ last.op = "none"
           /\ golden' = r.table
           /\ last' = Returned("approve", id, EditedSeq(edited),
                                UpdatedGoldenRecord(edited), <<"approved">>,
                                comments, steward_name, r.ret)
           /\ UNCHANGED <<now, sessionVars>>

OpReject(id, comments, steward_name) ==
    \E transportOk \in BOOLEAN :
        LET r == RejectHandler(golden, DefaultDbConfig, id, comments,
                               steward_name, transportOk, now)
        IN /\ last.op = "none"
           /\ golden' = r.table
           /\ last' = Returned("reject", id, <<>>, <<>>, <<"rejected">>,
                                comments, steward_name, r.ret)
           /\ UNCHANGED <<now, sessionVars>>

\* the caller goes on with the value returned
OpReturn ==
    /\ last.op # "none"
    /\ last' = NoOp
    /\ UNCHANGED <<now, golden, sessionVars>>

\* the clock between two operations
OpTick ==
    /\ last.op = "none"
    /\ Tick(CACHE_EXPIRY)

NextOps ==
    \/ OpGenerate
    \/ \E id \in RecordIds, st \in StatusInputs, c \in CommentInputs,
          by \in StewardNames : OpUpdateStatus(id, st, c, by)
    \/ \E id \in RecordIds, d \in DirectEdits, st \in StatusInputs,
          c \in CommentInputs, by \in StewardNames :
          OpUpdateWithEdits(id, d, st, c, by)
    \/ \E id \in RecordIds, e \in EditSets, c \in CommentInputs,
          by \in StewardNames : OpApprove(id, e, c, by)
    \/ \E id \in RecordIds, c \in CommentInputs, by \in StewardNames :
          OpReject(id, c, by)
    \/ OpReturn
    \/ OpTick

SpecOps == Init /\ [][NextOps]_vars

\* generate and the two buttons of the stewardship page, nothing else
NextSteward ==
    \/ OpGenerate
    \/ \E id \in RecordIds, e \in EditSets, c \in CommentInputs,
          by \in StewardNames : OpApprove(id, e, c, by)
    \/ \E id \in RecordIds, c \in CommentInputs, by \in StewardNames :
          OpReject(id, c, by)
    \/ OpReturn
    \/ OpTick

SpecSteward == Init /\ [][NextSteward]_vars

\* ---------------------------------------- the stewardship page, live
\* Two sessions on the Data Stewardship page within one lifetime of the
\* cache: the clock does not advance here, an entry stays valid until the
\* session clears its cache.
\* the "Data Steward Name" of a session
StewardOf(s) == <<s>>

\* what a steward leaves in the text areas and in "Review Comments"
UiEdits == {[f \in FieldNames |-> IF f = "phone" THEN <<>> ELSE <<"a">>]}
UiComments == {<<>>, <<"a">>}

\* what the merge oracle gives the page's generate runs
UiMergeOutputs == {m \in MergeOutputs : m["phone"] = Null}

\* the record's persisted status is 'pending'
PersistedPending(id) ==
    id \in DOMAIN golden /\ golden[id].steward_status = Str(<<"pending">>)

\* "Generate New Golden Records": the handler runs generate_golden_records
\* and st.rerun() renders the page anew
UiGenerate(s) ==
    /\ pc[s] = "idle"
    /\ ui[s].pc = "idle"
    /\ \E admitted \in SUBSET Pairs, merged \in UiMergeOutputs,
          transportOk \in BOOLEAN :
          /\ Len(golden) + Cardinality(admitted) <= MaxGolden
          /\ golden' = generate_golden_records(golden, admitted, merged,
                                               transportOk, now).table
    /\ UNCHANGED <<now, db_config, data_cache, cache_timestamps, pc, call,
                   cleared, ui, last>>

\* a click on "Approve Golden Record" of a rendered pending record: the
\* script reruns
UiClickApprove(s, id, edited, comments) ==
    /\ pc[s] = "idle"
    /\ ui[s].pc = "idle"
    /\ PendingIn(ui[s].listing, id)
    /\ ui' = [ui EXCEPT
                ![s].pc = "rerun",
                ![s].ev = [kind |-> "approve", id |-> id, edited |-> edited,
                           comments |-> comments,
                           whilePending |-> PersistedPending(id)]]
    /\ UNCHANGED <<now, db_config, data_cache, cache_timestamps, pc, call,
                   cleared, golden, last>>

\* a click on "Reject Record" of a rendered pending record
UiClickReject(s, id, comments) ==
    /\ pc[s] = "idle"
    /\ ui[s].pc = "idle"
    /\ PendingIn(ui[s].listing, id)
    /\ ui' = [ui EXCEPT
                ![s].pc = "rerun",
                ![s].ev = [kind |-> "reject", id |-> id, edited |-> <<>>,
                           comments |-> comments,
                           whilePending |-> PersistedPending(id)]]
    /\ UNCHANGED <<now, db_config, data_cache, cache_timestamps, pc, call,
                   cleared, golden, last>>

\* the rerun reached the clicked button: its handler runs, and on success
\* st.rerun() renders the page anew
UiHandler(s) ==
    /\ ui[s].pc = "handler"
    /\ \E transportOk \in BOOLEAN :
          LET ev == ui[s].ev
              r == IF ev.kind = "approve"
                   THEN ApproveHandler(golden, db_config[s], ev.id, ev.edited,
                            ev.comments, StewardOf(s), transportOk, now)
                   ELSE RejectHandler(golden, db_config[s], ev.id,
                            ev.comments, StewardOf(s), transportOk, now)
          IN /\ golden' = r.table
             /\ ui' = [ui EXCEPT
                         ![s].pc = "idle",
                         ![s].ev = NoEvent,
                         ![s].succeeded =
                             IF r.ret /\ r.table # golden /\ ev.whilePending
                             THEN @ \cup {ev.id} ELSE @]
    /\ UNCHANGED <<now, db_config, data_cache, cache_timestamps, pc, call,
                   cleared, last>>

NextUi ==
    \/ \E s \in Sessions : WrapperBegin(s, fetch_golden_records_name)
    \/ \E s \in Sessions : WrapperExec(s)
    \/ \E s \in Sessions : WrapperStore(s)
    \/ \E s \in Sessions : WrapperReturn(s)
    \/ \E s \in Sessions : ClearCacheButton(s)
    \/ \E s \in Sessions : UiGenerate(s)
    \/ \E s \in Sessions, id \in RecordIds, e \in UiEdits, c \in UiComments :
          UiClickApprove(s, id, e, c)
    \/ \E s \in Sessions, id \in RecordIds, c \in UiComments :
          UiClickReject(s, id, c)
    \/ \E s \in Sessions : UiHandler(s)

SpecUi == Init /\ [][NextUi]_vars

\* --------------------------------------- generation over a source table
\* the source table of the generation runs holds patients 1..GenPatients,
\* and the golden table at most MaxGenGolden rows
GenPatients == 3
MaxGenGolden == 3
MaxLedger == 2

\* the pairs of the source table with id1 < id2
GenPairs ==
    {p \in (1..GenPatients) \X (1..GenPatients) : p[1] < p[2]}

\* FROM main t1 CROSS JOIN main t2
CrossJoin(source) == source \X source

\* the judgments of the same-person oracle over a source table: the pairs of
\* core, in both orders, and every patient with itself
SamePerson(source, core) ==
    core \cup {<<p[2], p[1]>> : p \in core} \cup {<<i, i>> : i \in source}

\* WHERE t1.patient_id < t2.patient_id AND ai_query(...) = 'true', with <=
AdmittedPairs_le(source, same) ==
    {p \in CrossJoin(source) : p[1] <= p[2] /\ p \in same}

\* WHERE t1.patient_id < t2.patient_id AND ai_query(...) = 'true'
AdmittedPairs(source, same) ==
    {p \in CrossJoin(source) : p[1] < p[2] /\ p \in same}

\* one run of generate_golden_records over the source table; the oracles
\* live in the warehouse and answer only when the statement runs, so a run
\* whose connection fails has no judgments
GenRunUpTo(cap) ==
    \E core \in SUBSET GenPairs, merged \in UiMergeOutputs, transportOk \in BOOLEAN :
        LET source == 1..GenPatients
            same == SamePerson(source, core)
            admitted == AdmittedPairs(source, same)
            r == generate_golden_records(golden, admitted, merged,
                                         transportOk, now)
        IN /\ last.op = "none"
           /\ Len(golden) + Cardinality(admitted) <= cap
           /\ golden' = r.table
           /\ last' = [Returned("generate", 0, <<>>, <<>>, <<>>, <<>>, <<>>,
                                r.ret)
                          EXCEPT !.input = [source |-> source,
                                            same |-> IF transportOk THEN same
                                                     ELSE {}]]
           /\ UNCHANGED <<now, sessionVars>>

GenRun == \E cap \in {MaxGenGolden} : GenRunUpTo(cap)

\* the same run in a table of at most MaxLedger records
LedgerRun == \E cap \in {MaxLedger} : GenRunUpTo(cap)

\* the comments of the decisions below: plain, or closing the literal and
\* assigning golden_record_id
LedgerComments ==
    {<<"a">>, <<"a", Quote, ",", "golden_record_id", "=", Quote, "9">>}

\* a steward's decision on one of the records generated so far
GenDecide ==
    \E id \in DOMAIN golden, status \in StatusInputs, c \in LedgerComments :
        OpUpdateStatus(id, status, c, <<"a">>)

NextGen ==
    \/ GenRun
    \/ OpReturn
    \/ OpTick

\* generation runs interleaved with decisions on the records they left
NextLedger ==
    \/ LedgerRun
    \/ GenDecide
    \/ OpReturn

SpecLedger == Init /\ [][NextLedger]_vars

SpecGen == Init /\ [][NextGen]_vars

\* ------------------------------------------------ numbers in JSON text
\* get_json_object gives the text of a JSON number.  A number text is a
\* sequence of characters: digits, ".", and "e" "-" digit for an exponent.
Digits == <<"0", "1", "2", "3", "4", "5", "6", "7", "8", "9">>

IsDigit(c) == \E d \in DOMAIN Digits : Digits[d] = c

DigitVal(c) == (CHOOSE d \in DOMAIN Digits : Digits[d] = c) - 1

\* the first position of c in the text, or 0
IndexOf(text, c) ==
    IF \E i \in DOMAIN text : text[i] = c
    THEN CHOOSE i \in DOMAIN text :
            text[i] = c /\ \A j \in 1..(i - 1) : text[j] # c
    ELSE 0

\* the value of a sequence of digits
RECURSIVE NumberOf(_)
NumberOf(ds) ==
    IF ds = <<>> THEN 0
    ELSE 10 * NumberOf(SubSeq(ds, 1, Len(ds) - 1)) + DigitVal(ds[Len(ds)])

RECURSIVE Pow10(_)
Pow10(n) == IF n = 0 THEN 1 ELSE 10 * Pow10(n - 1)

\* CAST(text AS DOUBLE), in thousandths (the texts of the model have at most
\* three decimals); -1 for a text that is not a number (the cast gives NULL)
CastDouble(text) ==
    LET e == IndexOf(text, "e")
        m == IF e = 0 THEN text ELSE SubSeq(text, 1, e - 1)
        dot == IndexOf(m, ".")
        ip == IF dot = 0 THEN m ELSE SubSeq(m, 1, dot - 1)
        fp == IF dot = 0 THEN <<>> ELSE SubSeq(m, dot + 1, Len(m))
        ex == IF e = 0 THEN <<>> ELSE SubSeq(text, e + 1, Len(text))
        wellFormed ==
            /\ ip # <<>> /\ \A i \in DOMAIN ip : IsDigit(ip[i])
            /\ \A i \in DOMAIN fp : IsDigit(fp[i])
            /\ Len(fp) <= 3
            /\ dot # 0 => fp # <<>>
            /\ e # 0 => Len(ex) = 2 /\ ex[1] = "-" /\ IsDigit(ex[2])
    IN IF ~wellFormed THEN -1
       ELSE LET thousandths ==
                    NumberOf(ip) * 1000 + NumberOf(fp) * Pow10(3 - Len(fp))
            IN IF e = 0 THEN thousandths
               ELSE thousandths \div Pow10(DigitVal(ex[2]))

\* the code point order of the characters of a number text
CharRank(c) ==
    IF c = "-" THEN 1 ELSE IF c = "." THEN 2
    ELSE IF IsDigit(c) THEN 3 + DigitVal(c) ELSE 20

\* a < b as strings
RECURSIVE StrLess(_, _)
StrLess(a, b) ==
    IF b = <<>> THEN FALSE
    ELSE IF a = <<>> THEN TRUE
    ELSE IF CharRank(Head(a)) # CharRank(Head(b))
         THEN CharRank(Head(a)) < CharRank(Head(b))
    ELSE StrLess(Tail(a), Tail(b))

\* ------------------------------------------------- duplicate detection
\* the source table of the fetches holds a subset of 1..NumSource
NumSource == 3

\* a field of the oracle's JSON: present with its text, or missing
Present(text) == [has |-> TRUE, text |-> text]
Absent == [has |-> FALSE, text |-> <<>>]

\* get_json_object(json, '$.field'): the text of the field, or NULL
get_json_object(json, field) ==
    IF json[field].has THEN Str(json[field].text) ELSE Null

\* similarity_score as the oracle may write it: at the threshold, above it,
\* with an exponent, above 1, or not at all
ScoreTexts ==
    {<<"0", ".", "5">>, <<"0", ".", "9">>, <<"6", "e", "-", "1">>,
     <<"1", ".", "5">>}

SimilarityAnswers ==
    {[similarity_score |-> x, is_match |-> Present(<<"true">>)] :
        x \in {Present(t) : t \in ScoreTexts} \cup {Absent}}

\* WHERE t1.patient_id < t2.patient_id, with <=
ConsideredPairs_le(source) == {p \in CrossJoin(source) : p[1] <= p[2]}

\* FROM main t1 CROSS JOIN main t2 WHERE t1.patient_id < t2.patient_id
ConsideredPairs(source) == {p \in CrossJoin(source) : p[1] < p[2]}

\* the rows of the CTE pairwise_similarity: the oracle is asked once per row
pairwise_similarity(source, oracle) ==
    {[id1 |-> p[1], id2 |-> p[2], similarity_result |-> oracle[p]] :
        p \in ConsideredPairs(source)}

\* WHERE similarity_score > 0.5, with >=
AboveThreshold_ge(score) == score.k = "str" /\ CastDouble(score.s) >= 500

\* WHERE get_json_object(similarity_result, '$.similarity_score') > 0.5: the
\* text is cast to a number; NULL and texts that are no number do not pass
AboveThreshold(score) == score.k = "str" /\ CastDouble(score.s) > 500

\* SELECT id1, id2, similarity_score, is_match FROM pairwise_similarity WHERE
SelectedPairs(source, oracle) ==
    {[id1 |-> r.id1, id2 |-> r.id2,
      similarity_score |-> get_json_object(r.similarity_result, "similarity_score"),
      is_match |-> get_json_object(r.similarity_result, "is_match")] :
        r \in {x \in pairwise_similarity(source, oracle) :
                 AboveThreshold(get_json_object(x.similarity_result,
                                                "similarity_score"))}}

\* ORDER BY similarity_score DESC over the selected rows: the column is the
\* text get_json_object gave, so the order is the order of strings, and rows
\* with equal texts come in any order
RECURSIVE OrderedDesc(_)
OrderedDesc(rows) ==
    IF rows = {} THEN {<<>>}
    ELSE UNION {{<<x>> \o t : t \in OrderedDesc(rows \ {x})} :
                 x \in {r \in rows : \A q \in rows :
                           ~StrLess(r.similarity_score.s, q.similarity_score.s)}}

\* the dataframes the warehouse may answer fetch_duplicate_data's query with
DuplicateAnswers(source, oracle) ==
    {[kind |-> "pairs", ver |-> 0, rows |-> o] :
        o \in OrderedDesc(SelectedPairs(source, oracle))}

\* what a fetch leaves with its caller: the source table, the answers the
\* oracle gave (none when the statement did not run) and the dataframe
\* returned
Fetched(op, input, output) ==
    [NoOp EXCEPT !.op = op, !.input = input, !.output = output, !.at = now]

\* fetch_duplicate_data(user_token) over a source table
FetchDuplicates ==
    /\ last.op = "none"
    /\ \E source \in SUBSET (1..NumSource) :
         \E oracle \in [ConsideredPairs(source) -> SimilarityAnswers] :
           \E answer \in DuplicateAnswers(source, oracle) :
             \E user_token \in UserTokens, transportOk \in BOOLEAN :
               last' = Fetched("fetch_duplicate_data",
                               [source |-> source,
                                oracle |-> IF transportOk THEN oracle
                                           ELSE <<>>],
                               RunQuery(user_token, transportOk, answer))
    /\ UNCHANGED <<now, golden, sessionVars>>

\* ------------------------------------------------- quality assessment
\* ai_query raised for the record
Failed == [failed |-> TRUE]

\* quality_score as the oracle may write it: low, high, above 100
QualityScoreTexts == {<<"9">>, <<"8", "5">>, <<"1", "5", "0">>}

\* the oracle's JSON for one record: within the ranges with an issues array,
\* or with completeness above 1 and no issues field
QualityAnswers ==
    {[failed |-> FALSE, quality_score |-> Present(q),
      completeness |-> Present(<<"0", ".", "9">>),
      issues |-> Present(<<"[]">>)] : q \in QualityScoreTexts}
    \cup
    {[failed |-> FALSE, quality_score |-> Present(q),
      completeness |-> Present(<<"1", ".", "5">>),
      issues |-> Absent] : q \in QualityScoreTexts}

\* ai_query(...) AS quality_assessment, evaluated for every row of the source
\* table: with the default failOnError an error for one row fails the
\* statement
QualityRaises(source, oracle) == \E r \in source : oracle[r].failed

\* SELECT patient_id, quality_score, completeness, issues FROM patient_quality
patient_quality(source, oracle) ==
    {[patient_id |-> r,
      quality_score |-> get_json_object(oracle[r], "quality_score"),
      completeness |-> get_json_object(oracle[r], "completeness"),
      issues |-> get_json_object(oracle[r], "issues")] : r \in source}

\* CAST(text AS INT)
CastInt(text) == CastDouble(text) \div 1000

\* ORDER BY CAST(quality_score AS INT) DESC: a is put before b
SortsBefore(a, b) == CastInt(a.quality_score.s) > CastInt(b.quality_score.s)

\* the orders the sort may leave the rows in: rows the key does not tell
\* apart come in any order
RECURSIVE OrderedByScore(_)
OrderedByScore(rows) ==
    IF rows = {} THEN {<<>>}
    ELSE UNION {{<<x>> \o t : t \in OrderedByScore(rows \ {x})} :
                 x \in {r \in rows : \A q \in rows : ~SortsBefore(q, r)}}

\* the dataframes the warehouse may answer fetch_quality_data's query with
QualityResults(source, oracle) ==
    {[kind |-> "quality", ver |-> 0, rows |-> o] :
        o \in OrderedByScore(patient_quality(source, oracle))}

\* fetch_quality_data(user_token) over a source table: the statement fails
\* when the connection does or when ai_query raises for a record, and
\* sql_query_* then return generate_demo_data()
FetchQuality ==
    /\ last.op = "none"
    /\ \E source \in SUBSET (1..NumSource) :
         \E oracle \in [source -> QualityAnswers \cup {Failed}] :
           \E user_token \in UserTokens, transportOk \in BOOLEAN :
             \E answer \in IF QualityRaises(source, oracle)
                           THEN {EmptyDataFrame}
                           ELSE QualityResults(source, oracle) :
               last' = Fetched("fetch_quality_data",
                               [source |-> source,
                                oracle |-> IF transportOk THEN oracle
                                           ELSE <<>>],
                               RunQuery(user_token,
                                   transportOk /\ ~QualityRaises(source, oracle),
                                   answer))
    /\ UNCHANGED <<now, golden, sessionVars>>

NextFetch ==
    \/ FetchDuplicates
    \/ FetchQuality
    \/ OpReturn

SpecFetch == Init /\ [][NextFetch]_vars

\* ------------------------------------- consolidation after a similarity run
\* generate_golden_records run after fetch_duplicate_data over the same source
\* table: the statement of generate_golden_records reads the source table and
\* asks the same-person oracle; it reads neither the dataframe nor the scores
\* of the similarity run, which stay with the caller for comparison
GenAfterSimilarity ==
    \E core \in SUBSET GenPairs, merged \in UiMergeOutputs, transportOk \in BOOLEAN :
        LET source == last.input.source
            same == SamePerson(source, core \cap CrossJoin(source))
            admitted == AdmittedPairs(source, same)
            r == generate_golden_records(golden, admitted, merged,
                                         transportOk, now)
        IN /\ last.op = "fetch_duplicate_data"
           /\ last.output.kind = "pairs"
           /\ Len(golden) + Cardinality(admitted) <= MaxGenGolden
           /\ golden' = r.table
           /\ last' = [Returned("generate", 0, <<>>, <<>>, <<>>, <<>>, <<>>,
                                r.ret)
                          EXCEPT !.input = [source |-> source,
                                            oracle |-> last.input.oracle,
                                            same |-> IF transportOk THEN same
                                                     ELSE {}],
                                 !.output = last.output]
           /\ UNCHANGED <<now, sessionVars>>

NextMatch ==
    \/ FetchDuplicates
    \/ GenAfterSimilarity
    \/ OpReturn

SpecMatch == Init /\ [][NextMatch]_vars

\* ----------------------------------------------------- a page render
\* the pages of the sidebar's selectbox
Pages ==
    {"Overview", "Patient Records", "Duplicate Detection", "Data Quality",
     "Data Stewardship", "Database Config", "Settings"}

\* the rows of the two demo datasets
DemoLen == 16

\* len(df)
len(df) ==
    IF df.kind \in {"demo_patients", "demo_quality"} THEN DemoLen
    ELSE Len(df.rows)

\* df.columns, by the statement or the constructor the dataframe comes from
ColumnsOf(df) ==
    IF df.kind = "demo_patients"
    THEN {"patient_id", "medical_record_num", "patient_name",
          "medicare_number", "suburb", "state", "postcode", "source_system",
          "private_health_fund", "blood_type", "gender"}
    ELSE IF df.kind \in {"demo_quality", "quality"}
    THEN {"patient_id", "patient_name", "source_system", "quality_score",
          "completeness", "issues"}
    ELSE IF df.kind = "patients"
    THEN {"patient_id", "source_system"} \cup FieldNames
    ELSE IF df.kind = "pairs"
    THEN {"id1", "id2", "name1", "name2", "system1", "system2",
          "similarity_score", "is_match", "confidence", "match_reason"}
    ELSE IF df.kind = "golden" THEN Columns
    ELSE {}

\* the decorated functions a render may call
RenderFuncs ==
    {fetch_patient_data_name, fetch_quality_data_name,
     fetch_duplicate_data_name, fetch_golden_records_name}

\* the warehouse's answer to the query of a decorated function, with n rows
RenderAnswer(func_name, n) ==
    [kind |-> IF func_name = fetch_patient_data_name THEN "patients"
              ELSE IF func_name = fetch_quality_data_name THEN "quality"
              ELSE IF func_name = fetch_duplicate_data_name THEN "pairs"
              ELSE "golden",
     ver |-> 0,
     rows |-> [i \in 1..n |-> i]]

\* the decorated functions main() and the page call, in their order
FuncsOf(page) ==
    {fetch_patient_data_name}
      \cup (IF page \in {"Data Quality", "Overview"}
            THEN {fetch_quality_data_name} ELSE {})
      \cup (IF page \in {"Duplicate Detection", "Overview", "Data Stewardship"}
            THEN {fetch_duplicate_data_name} ELSE {})
      \cup (IF page = "Data Stewardship"
            THEN {fetch_golden_records_name} ELSE {})

\* what the wrapper of func_name returns in session s: the cached value, or
\* the result of the decorated function
Loaded(s, func_name, user_token, transportOk, n) ==
    LET cached_data ==
            get_cached_data(s, CacheKey(func_name, db_config[s]), now)
    IN IF cached_data # NoneVal THEN cached_data
       ELSE RunQuery(user_token, transportOk, RenderAnswer(func_name, n))

\* df[column] raises KeyError
Missing(df, column) == column \notin ColumnsOf(df)

\* show_overview_dashboard raises
show_overview_dashboard_raises(patient_data, quality_data, duplicate_data) ==
    \/ len(duplicate_data) > 0 /\ Missing(duplicate_data, "is_match")
    \/ Missing(quality_data, "quality_score")
    \/ Missing(quality_data, "completeness")
    \/ Missing(patient_data, "source_system")

\* show_patient_records raises
show_patient_records_raises(patient_data) ==
    \/ Missing(patient_data, "source_system")
    \/ Missing(patient_data, "private_health_fund")
    \/ /\ len(patient_data) > 0
       /\ \E c \in {"patient_id", "medical_record_num", "patient_name",
                     "blood_type", "gender"} : Missing(patient_data, c)

\* show_duplicate_detection raises
show_duplicate_detection_raises(duplicate_data) ==
    /\ len(duplicate_data) > 0
    /\ \/ Missing(duplicate_data, "is_match")
       \/ Missing(duplicate_data, "similarity_score")

\* show_data_quality raises
show_data_quality_raises(quality_data) ==
    \E c \in {"quality_score", "source_system", "completeness"} :
        Missing(quality_data, c)

\* show_data_stewardship raises: an empty golden_records returns early
show_data_stewardship_raises(golden_records) ==
    /\ len(golden_records) > 0
    /\ \E c \in Columns \ {"patient_id_cluster", "created_at", "updated_at"} :
          Missing(golden_records, c)

\* the dataframes of one run of main(), and whether the page raised
MainRun(s, page, user_token, ok, n) ==
    LET patient_data ==
            Loaded(s, fetch_patient_data_name, user_token,
                   ok[fetch_patient_data_name], n)
        quality_data ==
            IF fetch_quality_data_name \in FuncsOf(page)
            THEN Loaded(s, fetch_quality_data_name, user_token,
                        ok[fetch_quality_data_name], n)
            ELSE generate_demo_quality_data
        duplicate_data ==
            IF fetch_duplicate_data_name \in FuncsOf(page)
            THEN Loaded(s, fetch_duplicate_data_name, user_token,
                        ok[fetch_duplicate_data_name], n)
            ELSE EmptyDataFrame
        golden_records ==
            IF fetch_golden_records_name \in FuncsOf(page)
            THEN Loaded(s, fetch_golden_records_name, user_token,
                        ok[fetch_golden_records_name], n)
            ELSE NoneVal
    IN [page |-> page,
        patient_data |-> patient_data,
        quality_data |-> quality_data,
        duplicate_data |-> duplicate_data,
        golden_records |-> golden_records,
        raised |->
            IF page = "Overview"
            THEN show_overview_dashboard_raises(patient_data, quality_data,
                                                duplicate_data)
            ELSE IF page = "Patient Records"
            THEN show_patient_records_raises(patient_data)
            ELSE IF page = "Duplicate Detection"
            THEN show_duplicate_detection_raises(duplicate_data)
            ELSE IF page = "Data Quality"
            THEN show_data_quality_raises(quality_data)
            ELSE IF page = "Data Stewardship"
            THEN show_data_stewardship_raises(golden_records)
            ELSE FALSE]

\* the cache of session s after the wrappers of the run stored what the
\* decorated functions returned
CacheAfter(s, dict, page, value) ==
    LET stored == {f \in FuncsOf(page) :
                     get_cached_data(s, CacheKey(f, db_config[s]), now) = NoneVal}
        keys == {CacheKey(f, db_config[s]) : f \in stored}
    IN [k \in (DOMAIN dict) \cup keys |->
            IF k \in keys
            THEN value[CHOOSE f \in stored : CacheKey(f, db_config[s]) = k]
            ELSE dict[k]]

\* one script run of main() in session s: it loads the data of the page,
\* each fetch with its own transport outcome, and displays the page
Render(s) ==
    /\ last.op = "none"
    /\ pc[s] = "idle"
    /\ \E page \in Pages, user_token \in UserTokens,
          ok \in [RenderFuncs -> BOOLEAN], n \in {0, 1} :
          LET run == MainRun(s, page, user_token, ok, n)
              result == [f \in RenderFuncs |->
                            IF f = fetch_patient_data_name THEN run.patient_data
                            ELSE IF f = fetch_quality_data_name THEN run.quality_data
                            ELSE IF f = fetch_duplicate_data_name
                            THEN run.duplicate_data
                            ELSE run.golden_records]
          IN /\ data_cache' = [data_cache EXCEPT ![s] =
                     CacheAfter(s, @, page, result)]
             /\ cache_timestamps' = [cache_timestamps EXCEPT ![s] =
                     CacheAfter(s, @, page, [f \in RenderFuncs |-> now])]
             /\ last' = [NoOp EXCEPT !.op = "main", !.at = now,
                                     !.input = [page |-> page, ok |-> ok],
                                     !.output = run]
    /\ UNCHANGED <<now, db_config, pc, call, cleared, golden, ui>>

\* the caller of main() is the script runner: the run is over
RenderReturn ==
    /\ last.op = "main"
    /\ last' = NoOp
    /\ UNCHANGED <<now, golden, sessionVars>>

\* the session whose renders are followed (sessions share no cache)
RenderSessions == {"s1"}

NextRender ==
    \/ \E s \in RenderSessions : Render(s)
    \/ RenderReturn
    \/ OpTick

SpecRender == Init /\ [][NextRender]_vars

\* ------------------------------------- the cache under configuration changes
\* what the "Database Configuration" form may hold when it is saved: names
\* with and without "_", and two golden tables
SavedConfigs ==
    {[catalog_name |-> <<"a", "_", "b">>, schema_name |-> <<"c">>,
      table_name |-> <<"t">>, golden_table_name |-> <<"g">>],
     [catalog_name |-> <<"a">>, schema_name |-> <<"b", "_", "c">>,
      table_name |-> <<"t">>, golden_table_name |-> <<"g">>],
     [catalog_name |-> <<"a", "_", "b">>, schema_name |-> <<"c">>,
      table_name |-> <<"t">>, golden_table_name |-> <<"h">>]}

\* the decorated functions called under changing configurations
ConfigFuncs == {fetch_patient_data_name, fetch_golden_records_name}

\* the table the query of a decorated function reads: get_table_reference
\* ('golden') in fetch_golden_records, get_table_reference('main') otherwise
TargetTable(func_name, config) ==
    get_table_reference(config,
        IF func_name = fetch_golden_records_name THEN "golden" ELSE "main")

\* the answer of the warehouse to the query of func_name under config: its
\* row tells the query and the table it was read from
ConfigAnswer(func_name, config) ==
    [kind |-> "rows", ver |-> 0,
     rows |-> <<[func |-> func_name, config |-> config,
                 from |-> TargetTable(func_name, config)]>>]

\* show_database_config: "Save Database Configuration" replaces db_config and
\* reruns; the cache is left as it is
SaveConfig(s, config) ==
    /\ pc[s] = "idle"
    /\ db_config[s] # config
    /\ db_config' = [db_config EXCEPT ![s] = config]
    /\ UNCHANGED <<now, data_cache, cache_timestamps, pc, call, cleared, golden,
                   ui, last>>

\* result = func(*args, **kwargs) under the session's configuration
ConfigExec(s) ==
    /\ pc[s] = "exec"
    /\ \E user_token \in UserTokens, transportOk \in BOOLEAN :
          /\ pc' = [pc EXCEPT ![s] = "store"]
          /\ call' = [call EXCEPT
                 ![s].ret = RunQuery(user_token, transportOk,
                                     ConfigAnswer(call[s].fname, db_config[s])),
                 ![s].invoked = @ + 1,
                 ![s].failed = ~transportOk]
    /\ UNCHANGED <<now, db_config, data_cache, cache_timestamps, cleared,
                   golden, ui, last>>

NextConfig ==
    \/ \E s \in RenderSessions, f \in ConfigFuncs : WrapperBegin(s, f)
    \/ \E s \in RenderSessions : ConfigExec(s)
    \/ \E s \in RenderSessions : WrapperStore(s)
    \/ \E s \in RenderSessions : WrapperReturn(s)
    \/ \E s \in RenderSessions, config \in SavedConfigs : SaveConfig(s, config)
    \/ \E d \in TickSteps : Tick(d)

SpecConfig == Init /\ [][NextConfig]_vars

\* ===================================================== the claims ===
\* the operations that are transitions of a golden record
Transitions == {"update_status", "update_with_edits", "approve", "reject"}

\* the last operation was a transition of a record the table held
OnRecord == last.op \in Transitions /\ last.id \in DOMAIN last.before

\* the columns a decision writes
DecisionColumns ==
    {"steward_status", "steward_comments", "approved_by", "approved_at"}

\* C1: approve and reject take effect only on a pending record: a transition
\* on a record whose persisted status is already approved or rejected reports
\* a conflict and leaves steward_status, steward_comments, approved_by and
\* approved_at as the first transition set them.
C1_TerminalStatusIsFinal ==
    (OnRecord /\ last.before[last.id].steward_status # Str(<<"pending">>))
        => /\ ~last.ret
           /\ \A c \in DecisionColumns :
                 golden[last.id][c] = last.before[last.id][c]

\* C2: when two sessions both click approve or reject on the same record
\* while its persisted status is pending, at most one of the two decisions
\* is written; the other fails and overwrites nothing.
C2_OneDecisionPerRecord ==
    \A s1, s2 \in Sessions :
        s1 # s2 => ui[s1].succeeded \cap ui[s2].succeeded = {}

\* the rows a generation run added, and the source ids of a pair as stored
NewRows == {i \in DOMAIN golden : i > Len(last.before)}

\* C11: one run of generate_golden_records creates exactly one golden record
\* for each pair (id1, id2) with id1 < id2 that the same-person oracle admits
\* and none for any other pair; each created record is pending and its
\* source_patient_ids are exactly the two ids of its pair.
C11_OneRecordPerAdmittedPair ==
    last.op = "generate" =>
        LET expected == {p \in last.input.same : p[1] < p[2]}
        IN /\ \A p \in expected :
                 Cardinality({i \in NewRows :
                     golden[i].source_patient_ids = Str(SourceIds(p))}) = 1
           /\ \A i \in NewRows :
                 /\ golden[i].steward_status = Str(<<"pending">>)
                 /\ \E p \in expected :
                       golden[i].source_patient_ids = Str(SourceIds(p))

\* a run admitted 1-2 and 2-3 and left two separate records
C11_Witness ==
    /\ last.op = "generate"
    /\ {<<1, 2>>, <<2, 3>>} \subseteq last.input.same
    /\ <<1, 3>> \notin last.input.same
    /\ Cardinality(NewRows) = 2

\* C12: every golden record was built from a pair whose similarity score is
\* above the matching threshold: after a similarity run, each record that
\* generate_golden_records adds comes from a pair that run scored above 0.5.
C12_OnlyPairsAboveThreshold ==
    (last.op = "generate" /\ last.output.kind = "pairs") =>
        \A i \in NewRows :
            \E p \in DOMAIN last.input.oracle :
                /\ golden[i].source_patient_ids = Str(SourceIds(p))
                /\ AboveThreshold(get_json_object(last.input.oracle[p],
                                                  "similarity_score"))

\* C13: generate_golden_records only appends: every golden record that
\* existed before a run, whatever its status, is unchanged after it, and the
\* run adds a fresh record for each admitted pair even when a record for the
\* same pair already exists.
C13_GenerateOnlyAppends ==
    last.op = "generate" =>
        /\ Len(golden) >= Len(last.before)
        /\ SubSeq(golden, 1, Len(last.before)) = last.before
        /\ Cardinality(NewRows)
             = Cardinality({p \in last.input.same : p[1] < p[2]})
        /\ \A p \in {q \in last.input.same : q[1] < q[2]} :
              \E i \in NewRows :
                  golden[i].source_patient_ids = Str(SourceIds(p))

\* a second run over the same admitted pair left a second record next to
\* the first, which had been rejected in between
C13_Witness ==
    /\ last.op = "generate"
    /\ \E i \in DOMAIN last.before, j \in NewRows :
          /\ golden[i].source_patient_ids = golden[j].source_patient_ids
          /\ golden[i].steward_status = Str(<<"rejected">>)
          /\ golden[j].steward_status = Str(<<"pending">>)

\* the golden_record_id values a table holds
GoldenIds(table) == {table[i].golden_record_id : i \in DOMAIN table}

\* C14: no operation removes a golden record: after every operation the table
\* holds every golden_record_id it held before, and has at least as many rows;
\* rejected records stay.
C14_NoRecordRemoved ==
    last.op # "none" =>
        /\ GoldenIds(last.before) \subseteq GoldenIds(golden)
        /\ Len(golden) >= Len(last.before)

\* the reject handler rejected a record, which is still in the table under
\* its golden_record_id
C14_Witness ==
    /\ OnRecord
    /\ last.op = "reject"
    /\ golden[last.id].steward_status = Str(<<"rejected">>)
    /\ golden[last.id].golden_record_id = IntVal(last.id)

\* the last operation was a run of fetch_duplicate_data
DuplicatesFetched == last.op = "fetch_duplicate_data"

\* C15: fetch_duplicate_data never returns a pair with id1 >= id2 and never
\* returns the same unordered pair twice; every unordered pair of distinct
\* source records is put to the similarity oracle exactly once, and no record
\* is compared with itself.
C15_PairsOrderedAndUnique ==
    DuplicatesFetched =>
        LET rows == last.output.rows
            asked == DOMAIN last.input.oracle
        IN /\ \A i \in DOMAIN rows :
                 /\ rows[i].id1 < rows[i].id2
                 /\ {rows[i].id1, rows[i].id2} \subseteq last.input.source
           /\ \A i, j \in DOMAIN rows :
                 {rows[i].id1, rows[i].id2} = {rows[j].id1, rows[j].id2}
                     => i = j
           /\ \A p \in asked : p[1] # p[2]
           /\ last.output.kind = "pairs" =>
                 \A a, b \in last.input.source :
                     a # b => Cardinality({p \in asked :
                                             {p[1], p[2]} = {a, b}}) = 1

\* three source records, three pairs asked, all three returned
C15_Witness ==
    /\ DuplicatesFetched
    /\ last.input.source = 1..3
    /\ Cardinality(DOMAIN last.input.oracle) = 3
    /\ Len(last.output.rows) = 3

\* the score the oracle gave the pair p in the last similarity run, in
\* thousandths; -1 when it gave none
ScoreOf(p) ==
    LET x == last.input.oracle[p].similarity_score
    IN IF x.has THEN CastDouble(x.text) ELSE -1

\* the pairs of the dataframe the last fetch returned
ReturnedPairs ==
    {<<last.output.rows[i].id1, last.output.rows[i].id2>> :
        i \in DOMAIN last.output.rows}

\* C16: the list fetch_duplicate_data returns is exactly the set of the
\* considered pairs whose similarity_score is strictly greater than 0.5: a
\* pair scoring 0.5 or less is never returned, none scoring above is dropped,
\* and each returned pair carries the score the oracle gave it.
C16_ExactlyAboveThreshold ==
    DuplicatesFetched =>
        /\ ReturnedPairs = {p \in DOMAIN last.input.oracle : ScoreOf(p) > 500}
        /\ \A i \in DOMAIN last.output.rows :
              LET r == last.output.rows[i]
              IN r.similarity_score
                   = Str(last.input.oracle[<<r.id1, r.id2>>].similarity_score.text)

\* one pair scored exactly 0.5 and was left out, another scored 6e-1 and
\* was returned
C16_Witness ==
    /\ DuplicatesFetched
    /\ \E p, q \in DOMAIN last.input.oracle :
          /\ ScoreOf(p) = 500 /\ p \notin ReturnedPairs
          /\ ScoreOf(q) = 600 /\ q \in ReturnedPairs

\* C17: the pairs fetch_duplicate_data returns are in descending order of
\* similarity_score, and pairs with equal similarity_score are in ascending
\* (id1, id2) order.
C17_DescendingWithTiebreak ==
    DuplicatesFetched =>
        \A i, j \in DOMAIN last.output.rows :
            i < j =>
                LET a == last.output.rows[i]
                    b == last.output.rows[j]
                    x == CastDouble(a.similarity_score.s)
                    y == CastDouble(b.similarity_score.s)
                IN \/ x > y
                   \/ /\ x = y
                      /\ \/ a.id1 < b.id1
                         \/ a.id1 = b.id1 /\ a.id2 < b.id2

\* the last operation was a run of fetch_quality_data
QualityFetched == last.op = "fetch_quality_data"

\* the records for which the oracle raised in the last quality run
FailedRecords ==
    {r \in DOMAIN last.input.oracle : last.input.oracle[r].failed}

\* the rows of the returned dataframe that assess record r
AssessmentsOf(r) ==
    {i \in DOMAIN last.output.rows :
        last.output.kind = "quality" /\ last.output.rows[i].patient_id = r}

\* C18: if the scoring oracle fails for one record of a quality batch, the
\* batch still yields an assessment for every record: the failed record gets
\* the minimum quality score, and every other record the assessment the
\* oracle gave it.
C18_OracleFailureIsolated ==
    (QualityFetched /\ Cardinality(FailedRecords) = 1) =>
        \A r \in last.input.source :
            /\ Cardinality(AssessmentsOf(r)) = 1
            /\ \A i \in AssessmentsOf(r) :
                  IF r \in FailedRecords
                  THEN last.output.rows[i].quality_score = Str(<<"0">>)
                  ELSE last.output.rows[i].quality_score
                         = get_json_object(last.input.oracle[r], "quality_score")

\* C19: a successful quality assessment returns exactly one assessment per
\* source record, and the assessments are in the order of the record ids.
C19_OnePerRecordInIdOrder ==
    (QualityFetched /\ last.output.kind = "quality") =>
        /\ Len(last.output.rows) = Cardinality(last.input.source)
        /\ \A r \in last.input.source : Cardinality(AssessmentsOf(r)) = 1
        /\ \A i, j \in DOMAIN last.output.rows :
              i < j => last.output.rows[i].patient_id
                         < last.output.rows[j].patient_id

\* a text is a number within lo..hi (in thousandths)
InRange(v, lo, hi) ==
    v.k = "str" /\ CastDouble(v.s) >= lo /\ CastDouble(v.s) <= hi

\* C20: whatever the oracle returns, every score handed to the caller lies
\* in its range: quality_score in 0..100 and completeness in 0..1 for every
\* assessment, similarity_score in 0..1 for every returned pair; an absent
\* issues list is returned as an empty list.
C20_ScoresInRange ==
    /\ (QualityFetched /\ last.output.kind = "quality") =>
          \A i \in DOMAIN last.output.rows :
              /\ InRange(last.output.rows[i].quality_score, 0, 100000)
              /\ InRange(last.output.rows[i].completeness, 0, 1000)
              /\ last.output.rows[i].issues = Str(<<"[]">>)
    /\ (DuplicatesFetched /\ last.output.kind = "pairs") =>
          \A i \in DOMAIN last.output.rows :
              InRange(last.output.rows[i].similarity_score, 0, 1000)

\* C8: a reject with empty comments, by the button or by
\* update_golden_record_status itself, fails and changes nothing: status,
\* comments, approved_by, approved_at and updated_at of the record stay.
C8_RejectNeedsComments ==
    (OnRecord /\ last.op \in {"update_status", "reject"}
              /\ last.status = <<"rejected">> /\ last.comments = <<>>)
        => /\ ~last.ret
           /\ golden = last.before

\* C9: after an approve with edited fields that reported success, the record
\* is approved, every field of the edit set holds exactly the value supplied,
\* and every field supplied empty or None is null.
C9_ApproveOverwritesExactly ==
    (OnRecord /\ last.op \in {"update_with_edits", "approve"}
              /\ last.status = <<"approved">> /\ last.ret)
        => /\ golden[last.id].steward_status = Str(<<"approved">>)
           /\ \A k \in DOMAIN last.updated_data :
                 golden[last.id][last.updated_data[k].field]
                    = IF last.updated_data[k].value.none THEN Null
                      ELSE Str(last.updated_data[k].value.s)
           /\ \A i \in DOMAIN last.edited :
                 last.edited[i] = <<>> => golden[last.id][FieldOrder[i]] = Null

\* C10: after update_golden_record_status or
\* update_golden_record_with_steward_edits reported success, the record's
\* approved_by is the reviewer of that call, steward_comments the comments of
\* that call, approved_at the time of the call, and updated_at is not
\* earlier than it was.
C10_DecisionSideEffects ==
    (OnRecord /\ last.op \in {"update_status", "update_with_edits"} /\ last.ret)
        => /\ golden[last.id].approved_by = Str(last.approved_by)
           /\ golden[last.id].steward_comments = Str(last.comments)
           /\ golden[last.id].approved_at = Ts(last.at)
           /\ golden[last.id].updated_at.t >= last.before[last.id].updated_at.t

\* C21: a True result of update_golden_record_status or
\* update_golden_record_with_steward_edits implies the write was applied to
\* the golden table: the record has the status of the call, and its
\* approved_at is the time of the call.
C21_TrueMeansApplied ==
    (OnRecord /\ last.op \in {"update_status", "update_with_edits"} /\ last.ret)
        => /\ golden[last.id].steward_status = Str(last.status)
           /\ golden[last.id].approved_at = Ts(last.at)

\* C22: a transport failure while loading data is never fatal to a page
\* render: main() completes the render, and each fetch yields its real result
\* or a fallback of the kind its consumer reads (patients; quality data;
\* for duplicates and golden records an empty dataset or the expected columns).
C22_RenderSurvivesTransportFailure ==
    last.op = "main" =>
        /\ ~last.output.raised
        /\ last.output.patient_data.kind \in {"patients", "demo_patients"}
        /\ last.output.quality_data.kind \in {"quality", "demo_quality"}
        /\ last.output.duplicate_data.kind \in {"pairs", "empty"}
        /\ last.output.golden_records.kind \in {"golden", "empty", "None"}

\* the row of the cached answer a wrapper call found under its key
FoundRow(s) == call[s].dataBefore.rows[1]

\* C23: the cache key of a wrapped fetch is the operation name followed by
\* the catalog, schema and table of the configuration, whatever the time, the
\* user token and the arguments: a call that finds under its key an answer
\* stored less than CACHE_EXPIRY seconds ago by the same operation under the
\* same catalog, schema and table is a cache hit.
C23_KeyOfNameAndConfig ==
    \A s \in Sessions :
        pc[s] # "idle" =>
            /\ call[s].key = call[s].fname \o <<"_">> \o db_config[s].catalog_name
                               \o <<"_">> \o db_config[s].schema_name
                               \o <<"_">> \o db_config[s].table_name
            /\ \A s2 \in Sessions :
                  (pc[s2] # "idle" /\ call[s2].fname = call[s].fname
                     /\ db_config[s2].catalog_name = db_config[s].catalog_name
                     /\ db_config[s2].schema_name = db_config[s].schema_name
                     /\ db_config[s2].table_name = db_config[s].table_name)
                      => call[s2].key = call[s].key
            /\ (/\ call[s].dataBefore.kind = "rows"
                /\ FoundRow(s).func = call[s].fname
                /\ FoundRow(s).config.catalog_name = db_config[s].catalog_name
                /\ FoundRow(s).config.schema_name = db_config[s].schema_name
                /\ FoundRow(s).config.table_name = db_config[s].table_name
                /\ call[s].ageAtCheck < CACHE_EXPIRY)
                  => call[s].fromCache /\ call[s].invoked = 0

\* a second call of the operation under the same configuration, later and
\* within the TTL, was a hit
C23_Witness ==
    \E s \in Sessions :
        /\ pc[s] = "done" /\ call[s].fromCache
        /\ call[s].dataBefore.kind = "rows"
        /\ FoundRow(s).func = call[s].fname
        /\ FoundRow(s).config = db_config[s]
        /\ call[s].ageAtCheck = CACHE_EXPIRY - 1

\* C26: two wrapped fetches share a cache entry only if they are the same
\* operation reading the same target table: the answer a wrapped fetch
\* returns was read, by the same operation, from the table its query reads
\* under the current configuration.
C26_EntrySharedOnlyForSameTable ==
    \A s \in Sessions :
        (pc[s] = "done" /\ call[s].ret.kind = "rows") =>
            /\ call[s].ret.rows[1].func = call[s].fname
            /\ call[s].ret.rows[1].from = TargetTable(call[s].fname, db_config[s])

\* what an edit set asks a field to hold
Supplied(item) == IF item.value.none THEN Null ELSE Str(item.value.s)

\* C24: an approve is one write. After update_golden_record_with_steward_edits
\* or the approve button, whether the call reported success or not, the record
\* is either exactly as it was, or it carries the new status together with
\* every supplied field value; and every record of the table has its status,
\* its provenance and all its columns.
C24_ApproveIsOneWrite ==
    /\ (OnRecord /\ last.op \in {"update_with_edits", "approve"})
          => \/ golden[last.id] = last.before[last.id]
             \/ /\ golden[last.id].steward_status = Str(last.status)
                /\ \A k \in DOMAIN last.updated_data :
                      golden[last.id][last.updated_data[k].field]
                         = Supplied(last.updated_data[k])
    /\ \A id \in DOMAIN golden :
          /\ DOMAIN golden[id] = Columns
          /\ golden[id].steward_status # Null
          /\ golden[id].source_patient_ids # Null
          /\ golden[id].patient_id_cluster # Null
          /\ golden[id].created_at # Null

\* an approve with a supplied field was written: the field and the status
\* changed together
C24_Witness ==
    /\ OnRecord /\ last.op = "update_with_edits"
    /\ last.updated_data # <<>>
    /\ last.before[last.id].steward_status = Str(<<"pending">>)
    /\ last.before[last.id].phone # Null
    /\ golden[last.id].steward_status = Str(<<"approved">>)
    /\ golden[last.id].phone = Null

\* C25: once a session's approve or reject of a record has been written, the
\* next fetch_golden_records of that session does not return the record as
\* pending, so the page does not render its approve and reject buttons again.
C25_FetchReflectsWrite ==
    \A s \in Sessions :
        pc[s] = "done" /\ call[s].fname = fetch_golden_records_name
            => \A id \in ui[s].succeeded : ~PendingIn(call[s].ret, id)

\* the columns a reject may write
RejectColumns ==
    {"steward_status", "steward_comments", "approved_by", "approved_at",
     "updated_at"}

\* C27: a reject changes only steward_status, steward_comments, approved_by,
\* approved_at and updated_at of the record: its sixteen merged fields,
\* confidence_score, source_patient_ids and created_at stay as they were.
C27_RejectKeepsTheRest ==
    (OnRecord /\ (last.op = "reject"
                    \/ (last.op = "update_status"
                            /\ last.status = <<"rejected">>)))
        => \A c \in Columns \ RejectColumns :
              golden[last.id][c] = last.before[last.id][c]

\* the columns no button of the stewardship page is meant to write
ProvenanceColumns ==
    {"source_patient_ids", "patient_id_cluster", "confidence_score",
     "created_at"}

\* C28: a transition modifies only the golden record whose id it is given,
\* every other golden record stays as it was; and an approve or reject of the
\* stewardship page leaves the record's source_patient_ids,
\* patient_id_cluster, confidence_score and created_at as they were.
C28_OnlyTheTargetedRecord ==
    OnRecord
        => /\ Len(golden) = Len(last.before)
           /\ \A i \in DOMAIN last.before :
                 i # last.id => golden[i] = last.before[i]
           /\ last.op \in {"approve", "reject"}
                 => \A c \in ProvenanceColumns :
                       golden[last.id][c] = last.before[last.id][c]

\* C29: in every state reached by generate and the buttons of the page, each
\* golden record's steward_status is pending, approved or rejected, and the
\* record is pending exactly when its approved_at and approved_by are null.
C29_PendingIffUndecided ==
    \A id \in DOMAIN golden :
        /\ golden[id].steward_status
              \in {Str(<<"pending">>), Str(<<"approved">>), Str(<<"rejected">>)}
        /\ golden[id].steward_status = Str(<<"pending">>)
              <=> (golden[id].approved_at = Null /\ golden[id].approved_by = Null)

\* a pending record without decision fields was approved by the button, and
\* has both decision fields
C29_Witness ==
    /\ OnRecord /\ last.op = "approve"
    /\ last.before[last.id].steward_status = Str(<<"pending">>)
    /\ last.before[last.id].approved_at = Null
    /\ last.before[last.id].approved_by = Null
    /\ golden[last.id].steward_status = Str(<<"approved">>)
    /\ golden[last.id].approved_at # Null
    /\ golden[last.id].approved_by # Null

\* the decorated functions
AllFuncs ==
    {fetch_patient_data_name, fetch_quality_data_name,
     fetch_duplicate_data_name, fetch_golden_records_name}

EntryTs(s, k) ==
    IF k \in DOMAIN cache_timestamps[s] THEN cache_timestamps[s][k] ELSE -1

EntryData(s, k) ==
    IF k \in DOMAIN data_cache[s] THEN data_cache[s][k] ELSE NoneVal

\* C3: when two callers are inside the same wrapped fetch for the same key at
\* once and the cache holds no valid entry, the query function runs once: no
\* two callers are ever both between their own run of the query function and
\* its set_cached_data for the same key.
C3_ComputeOncePerKey ==
    \A s1, s2 \in Sessions :
        (s1 # s2 /\ pc[s1] = "store" /\ pc[s2] = "store")
            => call[s1].key # call[s2].key

\* C4: a wrapped fetch whose warehouse connection or query raised leaves the
\* cache entry and timestamp of its key as they were before the call, and no
\* demo or fallback dataset is ever stored in data_cache.
C4_FailureLeavesCacheUntouched ==
    /\ \A s \in Sessions :
          (pc[s] = "done" /\ call[s].failed)
              => /\ EntryTs(s, call[s].key) = call[s].tsBefore
                 /\ EntryData(s, call[s].key) = call[s].dataBefore
    /\ \A s \in Sessions : \A k \in DOMAIN data_cache[s] :
          data_cache[s][k].kind \notin {"demo_patients", "demo_quality", "empty"}

\* C5: a wrapped fetch returns a cached value only if the value was stored
\* less than CACHE_EXPIRY seconds before the call; an entry aged CACHE_EXPIRY
\* or more is never returned and the call runs the query function instead.
C5_NoExpiredEntryReturned ==
    \A s \in Sessions :
        /\ (pc[s] = "done" /\ call[s].fromCache)
              => (call[s].tsBefore # -1 /\ call[s].ageAtCheck < CACHE_EXPIRY)
        /\ (pc[s] # "idle" /\ call[s].tsBefore # -1
                /\ call[s].ageAtCheck >= CACHE_EXPIRY)
              => /\ ~call[s].fromCache
                 /\ pc[s] = "done" => call[s].invoked = 1

C5_Witness ==
    \E s \in Sessions :
        /\ pc[s] = "done" /\ call[s].fromCache
        /\ call[s].ageAtCheck = CACHE_EXPIRY - 1

\* C6: right after clear_cache(), is_cache_valid is false and get_cached_data
\* returns None for every key, whatever was cached before, and the next
\* wrapped fetch of the session, for any key, runs its query function.
C6_ClearCacheInvalidatesAll ==
    \A s \in Sessions :
        /\ cleared[s].on
              => \A k \in KeysOf(s, AllFuncs) \cup cleared[s].keys :
                    /\ ~is_cache_valid(s, k, now)
                    /\ get_cached_data(s, k, now) = NoneVal
        /\ (pc[s] # "idle" /\ call[s].afterClear)
              => /\ ~call[s].fromCache
                 /\ pc[s] = "done" => call[s].invoked = 1

C6_Witness ==
    \E s \in Sessions :
        /\ pc[s] = "done" /\ call[s].afterClear /\ call[s].wasValid
        /\ call[s].invoked = 1

\* C7: a wrapped fetch that finds a valid entry returns it and does not run
\* the query function; one that finds none runs it exactly once, stores the
\* result with the current time under the key and returns what it stored.
\* A hit happens exactly when the entry is younger than CACHE_EXPIRY, so a
\* second call within the TTL of a stored result does not run the query.
C7_HitOrComputeOnce ==
    \A s \in Sessions :
        LET c == call[s]
            validAtCheck == c.tsBefore # -1 /\ c.ageAtCheck < CACHE_EXPIRY
        IN /\ pc[s] # "idle" => (c.fromCache <=> validAtCheck)
           /\ pc[s] = "exec" => c.invoked = 0
           /\ pc[s] = "store" => c.invoked = 1
           /\ pc[s] = "done" =>
                 IF c.fromCache
                 THEN c.invoked = 0 /\ c.ret = c.dataBefore
                 ELSE /\ c.invoked = 1
                      /\ EntryData(s, c.key) = c.ret
                      /\ EntryTs(s, c.key) = c.storedAt

C7_Witness ==
    \E s \in Sessions :
        /\ pc[s] = "done" /\ ~call[s].fromCache /\ call[s].invoked = 1
        /\ call[s].tsBefore # -1
        /\ EntryData(s, call[s].key) = call[s].ret
        /\ EntryTs(s, call[s].key) > call[s].tsBefore

\* a step wrote the entry of key k in session s: the key is new, or its value
\* or its timestamp is another than before
EntryWritten(s, k) ==
    \/ k \notin DOMAIN data_cache[s]
    \/ data_cache'[s][k] # data_cache[s][k]
    \/ EntryTs(s, k) # cache_timestamps'[s][k]

\* C30: data_cache and cache_timestamps of a session always have the same
\* keys, and whenever a step writes an entry, its timestamp is the time of
\* that step: no value is ever paired with the timestamp of an earlier value.
C30_ValueAndTimestampTogether ==
    /\ [](\A s \in Sessions : DOMAIN data_cache[s] = DOMAIN cache_timestamps[s])
    /\ [][\A s \in Sessions : \A k \in DOMAIN data_cache'[s] :
              /\ k \in DOMAIN cache_timestamps'[s]
              /\ EntryWritten(s, k) => cache_timestamps'[s][k] = now]_vars

\* a later value has replaced an earlier one under the same key, and the
\* entry carries the time of the later write
C30_Witness ==
    \E s \in Sessions :
        /\ pc[s] = "done" /\ ~call[s].fromCache
        /\ call[s].dataBefore # NoneVal
        /\ call[s].dataBefore # EntryData(s, call[s].key)
        /\ call[s].tsBefore # -1
        /\ call[s].tsBefore < EntryTs(s, call[s].key)
        /\ EntryTs(s, call[s].key) = now

====
